---- MODULE Spec2Model ----
(***************************************************************************)
(* Model of zoidberg.go: the Zoidberg recorder, its Ask operation and the  *)
(* getIt renderer.  Ask and getIt are modelled statement by statement; pc  *)
(* is the position of the calling test goroutine inside them.  The output  *)
(* sink z.w is the sequence of the texts written to it, one element per    *)
(* fmt.Fprintf call.                                                       *)
(***************************************************************************)
EXTENDS Integers, Sequences, FiniteSets, TLC

VARIABLES
    w,          \* z.w: the texts written to the output sink, in order
    reqHeaders, \* z.reqHeaders: default headers, name -> value
    t,          \* z.t: state of the enclosing test ("running" / "failed")
    pc,         \* position of the caller inside Ask / getIt
    r,          \* the Request descriptor of the current call (Ask's local copy)
    bodyReader, \* bodyReader of Ask: the marshalled body, or nil
    req,        \* req of Ask: the *http.Request, or nil
    err,        \* err of Ask / getIt: the error not yet checked, or "nil"
    resp,       \* resp of Ask: the *http.Response, or nil
    b,          \* b of Ask: the bytes read from resp.Body
    w0,         \* history: the content of the sink when the current call began
    failedAt,   \* history: the statement at which the test was failed
    sent,       \* history: the request was handed to http.DefaultClient.Do
    calls,      \* history: number of Ask calls begun
    suite,      \* the calling test suite: "single" or "sequence"
    arg,        \* history: the descriptor as the caller passed it to Ask
    prev        \* history: what the previous call sent, kept when the current
                \* descriptor differs from the previous one in RequestHeaders only

vars == <<w, reqHeaders, t, pc, r, bodyReader, req, err, resp, b, w0,
          failedAt, sent, calls, suite, arg, prev>>

\* Number of Ask calls a "sequence" suite makes on one recorder.
MaxCalls == 2

-----------------------------------------------------------------------------
(* Go values and maps *)

NoError == "nil"

\* A Go map: nil, or a function from its keys to its values.
NilMap == [nil |-> TRUE, m |-> <<>>]
MakeMap(f) == [nil |-> FALSE, m |-> f]

\* The orders in which `for k := range m` may yield the keys of a map.
RangeOrders(m) ==
    LET S == DOMAIN m.m
        n == Cardinality(S)
    IN  {s \in [1..n -> S] : \A i, j \in 1..n : i # j => s[i] # s[j]}

\* Go's < on strings: byte-wise lexicographic order (a string is its bytes).
RECURSIVE StringLess(_, _)
StringLess(x, y) ==
    IF y = <<>> THEN FALSE
    ELSE IF x = <<>> THEN TRUE
    ELSE IF x[1] # y[1] THEN x[1] < y[1]
    ELSE StringLess(Tail(x), Tail(y))

\* Insertion of x into the ascending sequence s of ints.
RECURSIVE InsertInt(_, _)
InsertInt(x, s) ==
    IF s = <<>> THEN <<x>>
    ELSE IF x < s[1] THEN <<x>> \o s
    ELSE <<s[1]>> \o InsertInt(x, Tail(s))

\* sort.Ints left out: the keys stay in the order the map yielded them.
SortInts_Unsorted(s) == s

\* sort.Ints: the ints of s in ascending order
RECURSIVE SortInts(_)
SortInts(s) ==
    IF s = <<>> THEN <<>> ELSE InsertInt(s[1], SortInts(Tail(s)))

\* Insertion of x into the ascending sequence s of strings.
RECURSIVE InsertString(_, _)
InsertString(x, s) ==
    IF s = <<>> THEN <<x>>
    ELSE IF StringLess(x, s[1]) THEN <<x>> \o s
    ELSE <<s[1]>> \o InsertString(x, Tail(s))

\* sort.Strings: the strings of s in ascending order
RECURSIVE SortStrings(_)
SortStrings(s) ==
    IF s = <<>> THEN <<>> ELSE InsertString(s[1], SortStrings(Tail(s)))

-----------------------------------------------------------------------------
(* encoding/json on the values the callers and the endpoint use.  A JSON   *)
(* text is its sequence of tokens; arrays hold at most one element, so no  *)
(* "," token occurs.                                                       *)

NilBody == [k |-> "nil"]                 \* the nil interface value
Num     == [k |-> "num"]                 \* the number 1
Arr(e)  == [k |-> "arr", e |-> e]        \* a slice
Chan    == [k |-> "chan"]                \* a channel: json cannot encode it

RECURSIVE Encodable(_)
Encodable(v) ==
    CASE v.k = "num"  -> TRUE
      [] v.k = "nil"  -> TRUE
      [] v.k = "arr"  -> \A i \in 1..Len(v.e) : Encodable(v.e[i])
      [] OTHER        -> FALSE

RECURSIVE Compact(_)
Compact(v) ==
    CASE v.k = "num" -> <<"1">>
      [] v.k = "nil" -> <<"null">>
      [] v.k = "arr" -> IF v.e = <<>> THEN <<"[", "]">>
                        ELSE <<"[">> \o Compact(v.e[1]) \o <<"]">>

\* json.Marshal
Marshal(v) ==
    IF Encodable(v) THEN [err |-> NoError, bytes |-> Compact(v)]
    ELSE [err |-> "json: unsupported type", bytes |-> <<>>]

\* A line break followed by the prefix and d copies of the indent.
NewlineIndent(d) == <<"\n", "      ">> \o [i \in 1..d |-> "  "]

RECURSIVE Indented(_, _)
Indented(v, d) ==
    CASE v.k = "num" -> <<"1">>
      [] v.k = "nil" -> <<"null">>
      [] v.k = "arr" -> IF v.e = <<>> THEN <<"[", "]">>
                        ELSE <<"[">> \o NewlineIndent(d + 1)
                             \o Indented(v.e[1], d + 1)
                             \o NewlineIndent(d) \o <<"]">>

\* json.MarshalIndent(v, "      ", "  ")
MarshalIndent(v) ==
    IF Encodable(v) THEN [err |-> NoError, bytes |-> Indented(v, 0)]
    ELSE [err |-> "json: unsupported type", bytes |-> <<>>]

RECURSIVE Decode(_)
Decode(s) ==
    IF s = <<"1">> THEN [ok |-> TRUE, v |-> Num]
    ELSE IF s = <<"null">> THEN [ok |-> TRUE, v |-> NilBody]
    ELSE IF Len(s) >= 2 /\ s[1] = "[" /\ s[Len(s)] = "]"
         THEN IF Len(s) = 2 THEN [ok |-> TRUE, v |-> Arr(<<>>)]
              ELSE LET inner == Decode(SubSeq(s, 2, Len(s) - 1))
                   IN  IF inner.ok THEN [ok |-> TRUE, v |-> Arr(<<inner.v>>)]
                       ELSE [ok |-> FALSE, v |-> NilBody]
    ELSE [ok |-> FALSE, v |-> NilBody]

\* json.Unmarshal(body, &jb)
Unmarshal(s) ==
    LET d == Decode(s)
    IN  IF d.ok THEN [err |-> NoError, v |-> d.v]
        ELSE [err |-> "invalid character", v |-> NilBody]

-----------------------------------------------------------------------------
(* net/http *)

NilRequest  == [nil |-> TRUE]
NilResponse == [nil |-> TRUE]

\* textproto.CanonicalMIMEHeaderKey, on the header names in use
CanonicalMIMEHeaderKey(k) ==
    CASE k = "x-a"           -> "X-A"
      [] k = "authorization" -> "Authorization"
      [] OTHER               -> k

\* http.Header.Set: replaces the values stored under the canonical name
HeaderSet(h, k, v) ==
    LET ck == CanonicalMIMEHeaderKey(k)
    IN  [x \in DOMAIN h \cup {ck} |-> IF x = ck THEN v ELSE h[x]]

\* http.Header.Get
HeaderGet(h, k) ==
    LET ck == CanonicalMIMEHeaderKey(k)
    IN  IF ck \in DOMAIN h THEN h[ck] ELSE <<>>

\* base64.StdEncoding.EncodeToString: an injective encoding of the bytes
Base64(s) == <<"base64(">> \o s \o <<")">>

\* SetBasicAuth called only when credentials were given.
SetBasicAuth_OnlyWithCredentials(h, username, password) ==
    IF username = <<>> /\ password = <<>> THEN h
    ELSE HeaderSet(h, "Authorization",
                   <<"Basic">> \o Base64(username \o <<":">> \o password))

\* http.Request.SetBasicAuth
SetBasicAuth(h, username, password) ==
    HeaderSet(h, "Authorization",
              <<"Basic">> \o Base64(username \o <<":">> \o password))

\* The method is a valid HTTP token (validMethod in net/http).
ValidMethod(m) == m \in {"GET", "Post"}

\* A path segment holding an invalid percent escape.
BadEscape == "/%zz"

\* Position of the first "?" of a URL, 0 when there is none.
QueryMark(u) ==
    IF \E i \in 1..Len(u) : u[i] = "?"
    THEN CHOOSE i \in 1..Len(u) : u[i] = "?" /\ \A j \in 1..(i - 1) : u[j] # "?"
    ELSE 0

\* url.Parse of ts.URL followed by the tokens u (ts.URL is the scheme and host
\* of the test server): the part of u before the first "?" is URL.Path, the
\* part after it URL.RawQuery.
ParseURL(u) ==
    IF \E i \in 1..Len(u) : u[i] = BadEscape
    THEN [err |-> "invalid URL escape", Path |-> <<>>, RawQuery |-> <<>>]
    ELSE LET q == QueryMark(u)
         IN  IF q = 0 THEN [err |-> NoError, Path |-> u, RawQuery |-> <<>>]
             ELSE [err |-> NoError, Path |-> SubSeq(u, 1, q - 1),
                   RawQuery |-> SubSeq(u, q + 1, Len(u))]

\* http.NewRequest(method, url, body)
NewRequest(method, url, body) ==
    LET m == IF method = "" THEN "GET" ELSE method
        u == ParseURL(url)
    IN  IF ~ValidMethod(m)
        THEN [err |-> "invalid method", req |-> NilRequest]
        ELSE IF u.err # NoError
        THEN [err |-> u.err, req |-> NilRequest]
        ELSE [err |-> NoError,
              req |-> [nil |-> FALSE, Method |-> m,
                       URL |-> [Path |-> u.Path, RawQuery |-> u.RawQuery],
                       Proto |-> "HTTP/1.1", Header |-> <<>>, Body |-> body]]

\* strings.ToLower, on the methods in use
ToLower(s) ==
    CASE s = "GET"  -> "get"
      [] s = "Post" -> "post"
      [] OTHER      -> s

-----------------------------------------------------------------------------
(* The callers: the descriptors they pass, the default headers they give   *)
(* to NewZoidberg, and what the test endpoint answers.                     *)

ResponseCodesMap ==
    MakeMap(200 :> "OK" @@ 404 :> "Not Found" @@ 99 :> "Odd")

\* "id" -> ..., "Id" -> ..., "i" -> ... (names as their bytes)
FieldsMap ==
    MakeMap(<<105, 100>> :> "identifier" @@ <<73, 100>> :> "legacy"
            @@ <<105>> :> "index")

\* "q" -> ..., "Q" -> ...
ParametersMap == MakeMap(<<113>> :> "query" @@ <<81>> :> "exact")

EmptyMap == MakeMap(<<>>)

ExtraHeaders == MakeMap("X-A" :> <<"9">> @@ "Accept" :> <<"text/plain">>)

NoLogin == <<<<>>, <<>>>>               \* the zero value of [2]string
Login   == <<<<"u">>, <<"p">>>>

Descriptor(method, path, requestPath, body, headers, login, write, codes, fields, params) ==
    [Method |-> method, Path |-> path, RequestPath |-> requestPath,
     Body |-> body, RequestHeaders |-> headers, BasicAuthLogin |-> login,
     Description |-> "List widgets", Write |-> write, ResponseCodes |-> codes,
     ResponseJSONObjects |-> fields, ParameterValues |-> params]

\* The descriptors of a suite that makes one call.
SingleRequests ==
    {Descriptor(method, path, requestPath, body, headers, login, write, codes,
                fields, params) :
        method \in {"GET", "Post", "B D", ""},
        path \in {<<"/w">>, <<"/w", "/(id)">>},
        requestPath \in {<<>>, <<"/w", "/7", "?", "a=1">>, <<BadEscape>>},
        body \in {NilBody, Arr(<<Num>>), Chan},
        headers \in {NilMap, ExtraHeaders},
        login \in {NoLogin, Login},
        write \in BOOLEAN,
        codes \in {NilMap, ResponseCodesMap},
        fields \in {NilMap, EmptyMap, FieldsMap},
        params \in {NilMap, ParametersMap}}

\* The descriptors of a suite that makes a sequence of calls.
SequenceRequests ==
    {Descriptor(method, <<"/w">>, <<>>, body, headers, NoLogin, write, NilMap,
                NilMap, NilMap) :
        method \in {"GET", "B D"},
        body \in {NilBody, Num, Chan},
        headers \in {NilMap, ExtraHeaders},
        write \in BOOLEAN}

Requests(s) == IF s = "single" THEN SingleRequests ELSE SequenceRequests

\* The requestHeaders argument of NewZoidberg.
DefaultHeaders ==
    {<<>>,
     "Content-Type" :> <<"application/json">>
        @@ "authorization" :> <<"Bearer", "tok">>,
     "X-A" :> <<"1">> @@ "x-a" :> <<"2">>}

\* What the endpoint may answer: status, headers and body.
Responses ==
    {[nil |-> FALSE, Proto |-> "HTTP/1.1", Status |-> "200 OK",
      Header |-> ("Content-Type" :> <<"text/plain">>), Body |-> body] :
        body \in {<<>>, <<"[", "1", "]">>, <<"oops">>}}

-----------------------------------------------------------------------------
(* The output sink: one element per fmt.Fprintf call *)

Newlines(n) == [tag |-> "newlines", n |-> n]

\* The text the current call has appended to the sink.
Block == SubSeq(w, Len(w0) + 1, Len(w))

\* w extended by the texts of ls
Fprintf(ls) == w \o ls

-----------------------------------------------------------------------------
(* NewZoidberg *)

InitSuite(s) ==
    /\ suite = s
    /\ reqHeaders \in DefaultHeaders
    /\ w = <<>>
    /\ t = "running"
    /\ pc = "idle"
    /\ r = Descriptor("", <<>>, <<>>, NilBody, NilMap, NoLogin, FALSE, NilMap,
                      NilMap, NilMap)
    /\ arg = r
    /\ bodyReader = <<>>
    /\ req = NilRequest
    /\ err = NoError
    /\ resp = NilResponse
    /\ b = <<>>
    /\ w0 = <<>>
    /\ failedAt = "none"
    /\ sent = FALSE
    /\ calls = 0
    /\ prev = [set |-> FALSE]

Init == InitSuite("single")

InitSequence == InitSuite("sequence")

-----------------------------------------------------------------------------
(* Ask *)

zVars == <<reqHeaders, suite>>
histVars == <<w0, calls, arg, prev>>

\* require.NoError(z.t, err) at statement `at`: fails the test and ends the
\* goroutine (t.FailNow) when err is set, and otherwise goes on to `next`.
RequireNoError(at, next) ==
    IF err # NoError
    THEN /\ t' = "failed"
         /\ pc' = "FailNow"
         /\ failedAt' = at
    ELSE /\ pc' = next
         /\ UNCHANGED <<t, failedAt>>

\* Two descriptors that differ in RequestHeaders and in nothing else.
DifferOnlyInRequestHeaders(d1, d2) ==
    /\ d1.RequestHeaders # d2.RequestHeaders
    /\ [d1 EXCEPT !.RequestHeaders = NilMap]
         = [d2 EXCEPT !.RequestHeaders = NilMap]

\* The request header lines of the current call's block.
RequestHeaderLines ==
    {Block[i] : i \in {j \in 1..Len(Block) : Block[j].tag = "requestHeader"}}

\* What the call that ends now has sent and rendered.
Summary ==
    [set |-> TRUE, sent |-> sent, RequestHeaders |-> arg.RequestHeaders,
     Header |-> IF sent THEN req.Header ELSE <<>>,
     rendered |-> \E i \in 1..Len(Block) : Block[i].tag = "requestLine",
     lines |-> RequestHeaderLines]

\* The caller calls z.Ask(d).
AskBegin ==
    /\ \/ pc = "idle"
       \/ suite = "sequence" /\ pc \in {"Returned", "FailNow"} /\ calls < MaxCalls
    /\ \E d \in Requests(suite) :
        /\ r' = d
        /\ arg' = d
        /\ prev' = IF calls > 0 /\ DifferOnlyInRequestHeaders(d, arg)
                   THEN Summary ELSE [set |-> FALSE]
    /\ pc' = "Marshal"
    /\ bodyReader' = <<>>
    /\ req' = NilRequest
    /\ err' = NoError
    /\ resp' = NilResponse
    /\ b' = <<>>
    /\ w0' = w
    /\ failedAt' = "none"
    /\ sent' = FALSE
    /\ calls' = calls + 1
    /\ UNCHANGED <<w, t, zVars>>

\* if r.Body != nil { bodyBytes, err := json.Marshal(r.Body)
AskMarshal ==
    /\ pc = "Marshal"
    /\ IF r.Body # NilBody
       THEN /\ err' = Marshal(r.Body).err
            /\ pc' = "RequireMarshal"
       ELSE /\ pc' = "NewRequest"
            /\ UNCHANGED err
    /\ UNCHANGED <<w, t, r, bodyReader, req, resp, b, failedAt, sent, zVars,
                   histVars>>

\* require.NoError(z.t, err); bodyReader = bytes.NewReader(bodyBytes) }
AskRequireMarshal ==
    /\ pc = "RequireMarshal"
    /\ RequireNoError("Marshal", "NewRequest")
    /\ bodyReader' = IF err = NoError THEN Marshal(r.Body).bytes ELSE bodyReader
    /\ UNCHANGED <<w, r, req, err, resp, b, sent, zVars, histVars>>

\* if r.RequestPath == "" { r.RequestPath = r.Path }
EffectiveRequestPath(d) ==
    IF d.RequestPath = <<>> THEN d.Path ELSE d.RequestPath

\* req, err := http.NewRequest(r.Method, ts.URL + r.RequestPath, bodyReader)
AskNewRequest ==
    /\ pc = "NewRequest"
    /\ LET p == EffectiveRequestPath(r)
           n == NewRequest(r.Method, p, bodyReader)
       IN  /\ r' = [r EXCEPT !.RequestPath = p]
           /\ req' = n.req
           /\ err' = n.err
    /\ pc' = "SetHeaders"
    /\ UNCHANGED <<w, t, bodyReader, resp, b, failedAt, sent, zVars, histVars>>

\* A loop that leaves after its first iteration.
SetAll_FirstOnly(h, ks, m) ==
    IF ks = <<>> THEN h ELSE HeaderSet(h, ks[1], m[ks[1]])

\* The header set after req.Header.Set(k, v) for the keys in the order ks.
RECURSIVE SetAll(_, _, _)
SetAll(h, ks, m) ==
    IF ks = <<>> THEN h
    ELSE SetAll(HeaderSet(h, ks[1], m[ks[1]]), Tail(ks), m)

\* The loop of AskSetHeaders followed by the same loop over r.RequestHeaders.
AskSetHeaders_WithRequestHeaders ==
    /\ pc = "SetHeaders"
    /\ IF req.nil
       THEN /\ pc' = IF reqHeaders = <<>> /\ r.RequestHeaders.m = <<>>
                     THEN "SetBasicAuth" ELSE "Panic"
            /\ UNCHANGED req
       ELSE /\ \E ks \in RangeOrders(MakeMap(reqHeaders)) :
              \E js \in RangeOrders(r.RequestHeaders) :
                req' = [req EXCEPT !.Header =
                           SetAll(SetAll(req.Header, ks, reqHeaders), js,
                                  r.RequestHeaders.m)]
            /\ pc' = "SetBasicAuth"
    /\ UNCHANGED <<w, t, r, bodyReader, err, resp, b, failedAt, sent, zVars,
                   histVars>>

\* for k, v := range z.reqHeaders { req.Header.Set(k, v) }
AskSetHeaders ==
    /\ pc = "SetHeaders"
    /\ IF reqHeaders = <<>>
       THEN /\ pc' = "SetBasicAuth"
            /\ UNCHANGED req
       ELSE IF req.nil
       THEN /\ pc' = "Panic"              \* nil pointer dereference
            /\ UNCHANGED req
       ELSE /\ \E ks \in RangeOrders(MakeMap(reqHeaders)) :
                req' = [req EXCEPT !.Header = SetAll(req.Header, ks, reqHeaders)]
            /\ pc' = "SetBasicAuth"
    /\ UNCHANGED <<w, t, r, bodyReader, err, resp, b, failedAt, sent, zVars,
                   histVars>>

\* req.SetBasicAuth(r.BasicAuthLogin[0], r.BasicAuthLogin[1])
AskSetBasicAuth ==
    /\ pc = "SetBasicAuth"
    /\ IF req.nil
       THEN /\ pc' = "Panic"              \* nil pointer dereference
            /\ UNCHANGED req
       ELSE /\ req' = [req EXCEPT !.Header =
                          SetBasicAuth(req.Header, r.BasicAuthLogin[1],
                                       r.BasicAuthLogin[2])]
            /\ pc' = "RequireNewRequest"
    /\ UNCHANGED <<w, t, r, bodyReader, err, resp, b, failedAt, sent, zVars,
                   histVars>>

\* require.NoError(z.t, err)
AskRequireNewRequest ==
    /\ pc = "RequireNewRequest"
    /\ RequireNoError("NewRequest", "Do")
    /\ UNCHANGED <<w, r, bodyReader, req, err, resp, b, sent, zVars, histVars>>

\* resp, err := http.DefaultClient.Do(req)
AskDo ==
    /\ pc = "Do"
    /\ sent' = TRUE
    /\ \/ /\ err' = "connection refused"
          /\ UNCHANGED resp
       \/ /\ resp' \in Responses
          /\ UNCHANGED err
    /\ pc' = "RequireDo"
    /\ UNCHANGED <<w, t, r, bodyReader, req, b, failedAt, zVars, histVars>>

\* require.NoError(z.t, err)
AskRequireDo ==
    /\ pc = "RequireDo"
    /\ RequireNoError("Do", "ReadAll")
    /\ UNCHANGED <<w, r, bodyReader, req, err, resp, b, sent, zVars, histVars>>

\* b, err := ioutil.ReadAll(resp.Body)
AskReadAll ==
    /\ pc = "ReadAll"
    /\ \/ /\ err' = "unexpected EOF"
          /\ UNCHANGED b
       \/ /\ b' = resp.Body
          /\ UNCHANGED err
    /\ pc' = "RequireReadAll"
    /\ UNCHANGED <<w, t, r, bodyReader, req, resp, failedAt, sent, zVars,
                   histVars>>

\* The check of AskRequireReadAll, with the body validated as JSON as well.
AskRequireReadAll_ValidatesBody ==
    /\ pc = "RequireReadAll"
    /\ IF err # NoError \/ (Len(b) > 0 /\ Unmarshal(b).err # NoError)
       THEN /\ t' = "failed"
            /\ pc' = "FailNow"
            /\ failedAt' = "ReadAll"
       ELSE /\ pc' = "IfWrite"
            /\ UNCHANGED <<t, failedAt>>
    /\ UNCHANGED <<w, r, bodyReader, req, err, resp, b, sent, zVars, histVars>>

\* require.NoError(z.t, err)
AskRequireReadAll ==
    /\ pc = "RequireReadAll"
    /\ RequireNoError("ReadAll", "IfWrite")
    /\ UNCHANGED <<w, r, bodyReader, req, err, resp, b, sent, zVars, histVars>>

\* getIt called whatever r.Write is.
AskIfWrite_Always ==
    /\ pc = "IfWrite"
    /\ pc' = "Heading"
    /\ UNCHANGED <<w, t, r, bodyReader, req, err, resp, b, failedAt, sent, zVars,
                   histVars>>

\* if r.Write { z.getIt(z.t, req, r.Body, resp, b, r) }
AskIfWrite ==
    /\ pc = "IfWrite"
    /\ pc' = IF r.Write THEN "Heading" ELSE "Returned"
    /\ UNCHANGED <<w, t, r, bodyReader, req, err, resp, b, failedAt, sent, zVars,
                   histVars>>

-----------------------------------------------------------------------------
(* getIt *)

askVars == <<r, bodyReader, req, resp, b, sent>>

\* query := ""; if req.URL.RawQuery != "" { query = "?" + req.URL.RawQuery }
Query(q) == IF q.URL.RawQuery # <<>> THEN <<"?">> \o q.URL.RawQuery ELSE <<>>

\* ".. http:%s:: %s\n\n" with strings.ToLower(req.Method), req.URL.Path
HeadingLine(q, d) ==
    [tag |-> "heading", method |-> ToLower(q.Method), path |-> q.URL.Path]

\* "   %s\n\n" with r.Description
DescriptionLine(d) == [tag |-> "description", text |-> d.Description]

GetItHeading ==
    /\ pc = "Heading"
    /\ w' = Fprintf(<<HeadingLine(req, r), DescriptionLine(r)>>)
    /\ pc' = "ResponseCodes"
    /\ UNCHANGED <<t, err, failedAt, askVars, zVars, histVars>>

\* The "Response Code" block for the codes in the order ks.
ResponseCodeLines(ks, m) ==
    <<[tag |-> "responseCodeTitle"]>>
    \o [i \in 1..Len(ks) |-> [tag |-> "responseCode", code |-> ks[i],
                              text |-> m[ks[i]]]]

\* The block of GetItResponseCodes written without the nil check.
GetItResponseCodes_NoNilCheck ==
    /\ pc = "ResponseCodes"
    /\ \E ks \in RangeOrders(r.ResponseCodes) :
          w' = Fprintf(ResponseCodeLines(SortInts(ks), r.ResponseCodes.m)
                       \o <<Newlines(2)>>)
    /\ pc' = "Parameters"
    /\ UNCHANGED <<t, err, failedAt, askVars, zVars, histVars>>

\* if r.ResponseCodes != nil { ... sort.Ints ... }; "\n\n"
GetItResponseCodes ==
    /\ pc = "ResponseCodes"
    /\ IF r.ResponseCodes.nil
       THEN w' = Fprintf(<<Newlines(2)>>)
       ELSE \E ks \in RangeOrders(r.ResponseCodes) :
                w' = Fprintf(ResponseCodeLines(SortInts(ks), r.ResponseCodes.m)
                             \o <<Newlines(2)>>)
    /\ pc' = "Parameters"
    /\ UNCHANGED <<t, err, failedAt, askVars, zVars, histVars>>

\* The "Query Parameters" block for the names in the order ks.
ParameterLines(ks, m) ==
    <<[tag |-> "parameterTitle"]>>
    \o [i \in 1..Len(ks) |-> [tag |-> "parameter", name |-> ks[i],
                              text |-> m[ks[i]]]]

\* if r.ParameterValues != nil { ... sort.Strings ... }; "\n\n"
GetItParameters ==
    /\ pc = "Parameters"
    /\ IF r.ParameterValues.nil
       THEN w' = Fprintf(<<Newlines(2)>>)
       ELSE \E ks \in RangeOrders(r.ParameterValues) :
                w' = Fprintf(ParameterLines(SortStrings(ks), r.ParameterValues.m)
                             \o <<Newlines(2)>>)
    /\ pc' = "JSONObjects"
    /\ UNCHANGED <<t, err, failedAt, askVars, zVars, histVars>>

\* The "Response JSON Object" block for the names in the order ks.
JSONObjectLines(ks, m) ==
    <<[tag |-> "jsonObjectTitle"]>>
    \o [i \in 1..Len(ks) |-> [tag |-> "jsonObject", name |-> ks[i],
                              text |-> m[ks[i]]]]

\* if r.ResponseJSONObjects != nil { ... sort.Strings ... }; "\n\n"
GetItJSONObjects ==
    /\ pc = "JSONObjects"
    /\ IF r.ResponseJSONObjects.nil
       THEN w' = Fprintf(<<Newlines(2)>>)
       ELSE \E ks \in RangeOrders(r.ResponseJSONObjects) :
                w' = Fprintf(JSONObjectLines(SortStrings(ks),
                                             r.ResponseJSONObjects.m)
                             \o <<Newlines(2)>>)
    /\ pc' = "ExampleRequest"
    /\ UNCHANGED <<t, err, failedAt, askVars, zVars, histVars>>

\* "      %s: %s\n" with k, h.Get(k) for the names in the order ks
HeaderLines(tag, ks, h) ==
    [i \in 1..Len(ks) |-> [tag |-> tag, name |-> ks[i],
                           value |-> HeaderGet(h, ks[i])]]

\* "   Example request:", the sourcecode directive, the request line and
\* for k := range req.Header { ... }
GetItExampleRequest ==
    /\ pc = "ExampleRequest"
    /\ \E ks \in RangeOrders(MakeMap(req.Header)) :
        w' = Fprintf(<<[tag |-> "exampleRequest"], [tag |-> "sourcecode"],
                       [tag |-> "requestLine", method |-> req.Method,
                        path |-> req.URL.Path, query |-> Query(req),
                        proto |-> req.Proto]>>
                     \o HeaderLines("requestHeader", ks, req.Header))
    /\ pc' = "RequestBody"
    /\ UNCHANGED <<t, err, failedAt, askVars, zVars, histVars>>

\* if reqBody != nil { b, err := json.MarshalIndent(reqBody, "      ", "  ")
GetItRequestBody ==
    /\ pc = "RequestBody"
    /\ IF r.Body # NilBody
       THEN /\ err' = MarshalIndent(r.Body).err
            /\ pc' = "RequireRequestBody"
       ELSE /\ pc' = "ExampleResponse"
            /\ UNCHANGED err
    /\ UNCHANGED <<w, t, failedAt, askVars, zVars, histVars>>

\* require.NoError(t, err); "\n"; "      %s\n\n" with b }
GetItRequireRequestBody ==
    /\ pc = "RequireRequestBody"
    /\ RequireNoError("RequestBody", "ExampleResponse")
    /\ w' = IF err = NoError
            THEN Fprintf(<<Newlines(1),
                           [tag |-> "requestBody",
                            json |-> MarshalIndent(r.Body).bytes]>>)
            ELSE w
    /\ UNCHANGED <<err, askVars, zVars, histVars>>

\* GetItExampleResponse without the loop over the response headers.
GetItExampleResponse_NoHeaders ==
    /\ pc = "ExampleResponse"
    /\ w' = Fprintf(<<Newlines(1), [tag |-> "exampleResponse"],
                      [tag |-> "sourcecode"],
                      [tag |-> "statusLine", proto |-> resp.Proto,
                       status |-> resp.Status],
                      Newlines(1)>>)
    /\ pc' = "ResponseBody"
    /\ UNCHANGED <<t, err, failedAt, askVars, zVars, histVars>>

\* "\n", "   Example response:", the sourcecode directive, the status line,
\* for k := range resp.Header { ... }, "\n"
GetItExampleResponse ==
    /\ pc = "ExampleResponse"
    /\ \E ks \in RangeOrders(MakeMap(resp.Header)) :
        w' = Fprintf(<<Newlines(1), [tag |-> "exampleResponse"],
                       [tag |-> "sourcecode"],
                       [tag |-> "statusLine", proto |-> resp.Proto,
                        status |-> resp.Status]>>
                     \o HeaderLines("responseHeader", ks, resp.Header)
                     \o <<Newlines(1)>>)
    /\ pc' = "ResponseBody"
    /\ UNCHANGED <<t, err, failedAt, askVars, zVars, histVars>>

\* var jb interface{}; if len(body) > 0 { err := json.Unmarshal(body, &jb)
GetItResponseBody ==
    /\ pc = "ResponseBody"
    /\ IF Len(b) > 0
       THEN /\ err' = Unmarshal(b).err
            /\ pc' = "RequireUnmarshal"
       ELSE /\ pc' = "Returned"
            /\ UNCHANGED err
    /\ UNCHANGED <<w, t, failedAt, askVars, zVars, histVars>>

\* require.NoError(t, json.Unmarshal(body, &jb))
GetItRequireUnmarshal ==
    /\ pc = "RequireUnmarshal"
    /\ RequireNoError("Unmarshal", "ResponseBodyIndent")
    /\ UNCHANGED <<w, err, askVars, zVars, histVars>>

\* b, err := json.MarshalIndent(jb, "      ", "  ")
GetItResponseBodyIndent ==
    /\ pc = "ResponseBodyIndent"
    /\ err' = MarshalIndent(Unmarshal(b).v).err
    /\ pc' = "RequireResponseBody"
    /\ UNCHANGED <<w, t, failedAt, askVars, zVars, histVars>>

\* require.NoError(t, err); "      %s\n\n" with b }
GetItRequireResponseBody ==
    /\ pc = "RequireResponseBody"
    /\ RequireNoError("ResponseBodyIndent", "Returned")
    /\ w' = IF err = NoError
            THEN Fprintf(<<[tag |-> "responseBody",
                            json |-> MarshalIndent(Unmarshal(b).v).bytes]>>)
            ELSE w
    /\ UNCHANGED <<err, askVars, zVars, histVars>>

-----------------------------------------------------------------------------

Next ==
    \/ AskBegin
    \/ AskMarshal
    \/ AskRequireMarshal
    \/ AskNewRequest
    \/ AskSetHeaders
    \/ AskSetBasicAuth
    \/ AskRequireNewRequest
    \/ AskDo
    \/ AskRequireDo
    \/ AskReadAll
    \/ AskRequireReadAll
    \/ AskIfWrite
    \/ GetItHeading
    \/ GetItResponseCodes
    \/ GetItParameters
    \/ GetItJSONObjects
    \/ GetItExampleRequest
    \/ GetItRequestBody
    \/ GetItRequireRequestBody
    \/ GetItExampleResponse
    \/ GetItResponseBody
    \/ GetItRequireUnmarshal
    \/ GetItResponseBodyIndent
    \/ GetItRequireResponseBody

\* One Ask call on a fresh recorder, over the full range of descriptors.
Spec == Init /\ [][Next]_vars

\* Up to MaxCalls Ask calls, one after the other, on one recorder.
SpecSequence == InitSequence /\ [][Next]_vars

-----------------------------------------------------------------------------
(* Notions the properties below are stated with *)

\* The statements of getIt, in program order.
RenderSteps ==
    <<"Heading", "ResponseCodes", "Parameters", "JSONObjects", "ExampleRequest",
      "RequestBody", "RequireRequestBody", "ExampleResponse", "ResponseBody",
      "RequireUnmarshal", "ResponseBodyIndent", "RequireResponseBody">>

StepIndex(p) ==
    IF \E i \in 1..Len(RenderSteps) : RenderSteps[i] = p
    THEN CHOOSE i \in 1..Len(RenderSteps) : RenderSteps[i] = p
    ELSE 0

\* The failures getIt reports, by the statement that raised the error.
RenderFailures == {"RequestBody", "Unmarshal", "ResponseBodyIndent"}

\* The current call is in getIt, or has left it (by return or by FailNow).
InGetIt ==
    \/ StepIndex(pc) > 0
    \/ pc = "Returned" /\ r.Write
    \/ pc = "FailNow" /\ failedAt \in RenderFailures

\* The current call has executed the getIt statement named step.
Passed(step) ==
    \/ StepIndex(pc) > StepIndex(step)
    \/ pc = "Returned" /\ r.Write
    \/ pc = "FailNow" /\ failedAt \in RenderFailures

Tags(s) == [i \in 1..Len(s) |-> s[i].tag]

Repeat(n, x) == [i \in 1..n |-> x]

IsPrefix(p, s) == Len(p) <= Len(s) /\ SubSeq(s, 1, Len(p)) = p

Listing(title, entry, m) ==
    IF m.nil THEN <<>>
    ELSE <<title>> \o Repeat(Cardinality(DOMAIN m.m), entry)

\* The sections of a documentation block in the order of the specification,
\* up to and including the response headers.
SectionsBeforeResponseBody ==
    <<"heading", "description">>
    \o Listing("responseCodeTitle", "responseCode", r.ResponseCodes)
    \o <<"newlines">>
    \o Listing("parameterTitle", "parameter", r.ParameterValues)
    \o <<"newlines">>
    \o Listing("jsonObjectTitle", "jsonObject", r.ResponseJSONObjects)
    \o <<"newlines">>
    \o <<"exampleRequest", "sourcecode", "requestLine">>
    \o Repeat(Cardinality(DOMAIN req.Header), "requestHeader")
    \o (IF r.Body # NilBody THEN <<"newlines", "requestBody">> ELSE <<>>)
    \o <<"newlines", "exampleResponse", "sourcecode", "statusLine">>
    \o Repeat(Cardinality(DOMAIN resp.Header), "responseHeader")
    \o <<"newlines">>

Sections ==
    SectionsBeforeResponseBody
    \o (IF Len(b) > 0 THEN <<"responseBody">> ELSE <<>>)

BlockLines(tag) == SelectSeq(Block, LAMBDA l : l.tag = tag)

\* No two default headers share a canonical name.
DistinctCanonicalNames ==
    \A k1, k2 \in DOMAIN reqHeaders :
        CanonicalMIMEHeaderKey(k1) = CanonicalMIMEHeaderKey(k2) => k1 = k2

BasicAuthValue(login) ==
    <<"Basic">> \o Base64(login[1] \o <<":">> \o login[2])

-----------------------------------------------------------------------------
(* Properties *)

\* C1: an Ask call with Write = false appends nothing to the output sink,
\* at any point of the call and whatever its outcome.
C1_NoWriteNoText ==
    (pc # "idle" /\ ~arg.Write) => w = w0

C1_Witness ==
    pc = "Returned" /\ ~arg.Write /\ ~resp.nil /\ w0 # <<>>

\* C2: every heading line of a rendered call shows the descriptor's logical
\* path (Path) and the lower-cased request method.
C2_HeadingShowsLogicalPath ==
    \A i \in 1..Len(Block) :
        Block[i].tag = "heading" =>
            /\ Block[i].path = arg.Path
            /\ Block[i].method = ToLower(req.Method)

\* C3: an error is reported through the test handle at the statement where
\* it arose: while an error is pending the call is at the require that
\* follows the failing statement (or has failed the test), and the call
\* never ends by a nil dereference.
C3_FailuresReportedAtOnce ==
    /\ pc # "Panic"
    /\ err # NoError =>
          pc \in {"RequireMarshal", "RequireNewRequest", "RequireDo",
                  "RequireReadAll", "RequireRequestBody", "RequireUnmarshal",
                  "RequireResponseBody", "FailNow"}

\* C4: each listing block of a rendered call lists every key of its mapping
\* exactly once, with its description, in strictly ascending order: codes
\* by numeric value, parameter and field names by byte-wise order.  The
\* strictly ascending listing of a set is unique, so the order in which the
\* map yields its keys cannot change it.
C4_ListingsSorted ==
    /\ (Passed("ResponseCodes") /\ ~r.ResponseCodes.nil) =>
          LET ls == BlockLines("responseCode")
              m == r.ResponseCodes.m
          IN  /\ Len(ls) = Cardinality(DOMAIN m)
              /\ \A k \in DOMAIN m :
                    \E i \in 1..Len(ls) : ls[i].code = k /\ ls[i].text = m[k]
              /\ \A i, j \in 1..Len(ls) : i < j => ls[i].code < ls[j].code
    /\ (Passed("Parameters") /\ ~r.ParameterValues.nil) =>
          LET ls == BlockLines("parameter")
              m == r.ParameterValues.m
          IN  /\ Len(ls) = Cardinality(DOMAIN m)
              /\ \A k \in DOMAIN m :
                    \E i \in 1..Len(ls) : ls[i].name = k /\ ls[i].text = m[k]
              /\ \A i, j \in 1..Len(ls) :
                    i < j => StringLess(ls[i].name, ls[j].name)
    /\ (Passed("JSONObjects") /\ ~r.ResponseJSONObjects.nil) =>
          LET ls == BlockLines("jsonObject")
              m == r.ResponseJSONObjects.m
          IN  /\ Len(ls) = Cardinality(DOMAIN m)
              /\ \A k \in DOMAIN m :
                    \E i \in 1..Len(ls) : ls[i].name = k /\ ls[i].text = m[k]
              /\ \A i, j \in 1..Len(ls) :
                    i < j => StringLess(ls[i].name, ls[j].name)

C4_Witness ==
    /\ pc = "Returned" /\ r.Write
    /\ ~r.ResponseCodes.nil /\ ~r.ParameterValues.nil
    /\ Len(BlockLines("responseCode")) = 3
    /\ Len(BlockLines("parameter")) = 2
    /\ Len(BlockLines("jsonObject")) = 3

\* C5: when the body received from the endpoint is non-empty and not JSON,
\* the test fails only with Write = true and only at the parse of the
\* response body inside getIt, after the request was built, sent and its body
\* read; such a call does not return normally; with Write = false the call
\* does not fail.
C5_NonJSONFailsAtRender ==
    (~resp.nil /\ b = resp.Body /\ Len(b) > 0 /\ Unmarshal(b).err # NoError) =>
        /\ pc = "FailNow" =>
              /\ arg.Write
              /\ failedAt = "Unmarshal"
              /\ sent /\ ~req.nil
        /\ arg.Write => pc # "Returned"
        /\ ~arg.Write => pc \in {"RequireReadAll", "IfWrite", "Returned"}

C5_Witness ==
    /\ pc = "FailNow" /\ failedAt = "Unmarshal"
    /\ arg.Write /\ b = <<"oops">>

\* C6: every request handed to the HTTP client carries an Authorization
\* header holding the Basic credentials of the descriptor's BasicAuthLogin
\* pair, also when the pair is the empty pair.
C6_AuthorizationAlwaysSet ==
    sent =>
        /\ ~req.nil
        /\ "Authorization" \in DOMAIN req.Header
        /\ req.Header["Authorization"] = BasicAuthValue(arg.BasicAuthLogin)

C6_Witness ==
    /\ sent /\ arg.BasicAuthLogin = NoLogin
    /\ "authorization" \in DOMAIN reqHeaders

\* C7 as claimed: every default header is present on the request handed to
\* the HTTP client, with its configured value.
C7_AllDefaultsPresent ==
    sent => \A k \in DOMAIN reqHeaders :
                HeaderGet(req.Header, k) = reqHeaders[k]

\* C7 as amended: every default header whose canonical name is not
\* Authorization is present on the request handed to the HTTP client under
\* its canonical name, with the value configured for one of the default
\* headers of that canonical name (its own value when no other default
\* header shares the canonical name); the Authorization header holds the
\* Basic credentials instead of a default value.
C7_DefaultsPresentExceptAuthorization ==
    sent =>
        /\ \A k \in DOMAIN reqHeaders :
              LET ck == CanonicalMIMEHeaderKey(k)
                  same == {k2 \in DOMAIN reqHeaders :
                              CanonicalMIMEHeaderKey(k2) = ck}
              IN  ck # "Authorization" =>
                      /\ ck \in DOMAIN req.Header
                      /\ req.Header[ck] \in {reqHeaders[k2] : k2 \in same}
                      /\ same = {k} => HeaderGet(req.Header, k) = reqHeaders[k]
        /\ req.Header["Authorization"] = BasicAuthValue(arg.BasicAuthLogin)

C7_Witness ==
    /\ sent
    /\ "Content-Type" \in DOMAIN reqHeaders
    /\ "authorization" \in DOMAIN reqHeaders
    /\ req.Header["Content-Type"] = <<"application/json">>

\* C8: the block a rendered call appends is, at every point of the rendering,
\* a prefix of the sections in the fixed order, and the whole of it when the
\* call returns; a listing block is part of it only if its mapping was
\* supplied, the request body only if one was sent, the response body only
\* if it is non-empty.
C8_FixedSectionOrder ==
    InGetIt =>
        /\ IsPrefix(Tags(Block), Sections)
        /\ pc = "Returned" => Tags(Block) = Sections

C8_Witness ==
    /\ pc = "Returned" /\ r.Write
    /\ ~r.ResponseCodes.nil /\ ~r.ParameterValues.nil
    /\ ~r.ResponseJSONObjects.nil
    /\ r.Body # NilBody /\ Len(b) > 0
    /\ Tags(Block) = Sections

\* The current call has rendered its request headers.
RenderedRequest == InGetIt /\ Passed("ExampleRequest")

\* C9 as claimed: two consecutive calls whose descriptors differ in
\* RequestHeaders and in nothing else send the same header set and render the same request
\* header lines.
C9_RequestHeadersIgnored ==
    (prev.set /\ prev.sent /\ sent) =>
        /\ req.Header = prev.Header
        /\ (prev.rendered /\ RenderedRequest) =>
              RequestHeaderLines = prev.lines

\* C9 as amended: the same, provided no two default headers of the recorder
\* have the same canonical name.
C9_RequestHeadersIgnoredDistinctNames ==
    (prev.set /\ prev.sent /\ sent /\ DistinctCanonicalNames) =>
        /\ req.Header = prev.Header
        /\ (prev.rendered /\ RenderedRequest) =>
              RequestHeaderLines = prev.lines

C9_Witness ==
    /\ prev.set /\ prev.sent /\ sent /\ DistinctCanonicalNames
    /\ prev.RequestHeaders = NilMap /\ arg.RequestHeaders = ExtraHeaders
    /\ reqHeaders # <<>>
    /\ prev.rendered /\ RenderedRequest
    /\ RequestHeaderLines = prev.lines

\* C10 as claimed: a call with Write = true that fails has appended nothing
\* to the sink.
C10_NoPartialOutput ==
    (pc = "FailNow" /\ arg.Write) => w = w0

\* C10 as amended: a call with Write = true that fails before getIt has
\* appended nothing; one that fails in getIt fails at the parse of the
\* response body and has appended its block up to and including the
\* response headers, the response body alone missing.
C10_PartialOutputOnlyAtParse ==
    (pc = "FailNow" /\ arg.Write) =>
        IF failedAt \in {"Marshal", "NewRequest", "Do", "ReadAll"}
        THEN w = w0
        ELSE /\ failedAt = "Unmarshal"
             /\ IsPrefix(w0, w)
             /\ Tags(Block) = SectionsBeforeResponseBody

C10_Witness ==
    /\ pc = "FailNow" /\ arg.Write /\ failedAt = "Unmarshal"
    /\ w0 # <<>>
    /\ Tags(Block) = SectionsBeforeResponseBody

====
